---- MODULE Spec2Model ----
(***************************************************************************)
(* State-machine model of src/cancer_detection_app.py (CancerDetectionApp). *)
(*                                                                         *)
(* Conventions                                                             *)
(*  - Probabilities and the decision threshold are held as integer         *)
(*    percentages: 0.5 is 50, 1.5 is 150.                                  *)
(*  - A Python string is a sequence of tokens; "," and "\n" are always     *)
(*    tokens of their own, so separators and line breaks can be counted.   *)
(*  - A path is a sequence of components, each component a string.        *)
(*  - None and "" (both falsy in Python) are the empty sequence.           *)
(*  - Class indices are 0 and 1 as in the code; a score vector p is a      *)
(*    TLA+ sequence, so the code's p[i] is p[i + 1] here.                  *)
(***************************************************************************)
EXTENDS Integers, Sequences, FiniteSets, TLC

VARIABLES
    pc,                 \* position in main()/__init__: start, load_model, create_ui, running, crashed
    config_file,        \* content of config.json on disk
    model_file,         \* what lies at the configured model path on disk
    config,             \* self.config
    config_writes,      \* number of times config.json was opened for writing
    model_loaded,       \* self.model_loaded
    image_path,         \* self.image_path
    placeholder_label,  \* whether self.placeholder_label is placed
    image_label,        \* path of the picture shown in self.image_label (<<>>: no such label yet)
    resized,            \* arguments and result of the last resize_image_aspect_ratio call
    predict_button,     \* state of self.predict_button
    status_var,         \* self.status_var
    image_info_label,   \* text of self.image_info_label
    result_label,       \* text of self.result_label
    confidence_scores,  \* self.confidence_scores
    history_tree,       \* rows of self.history_tree, first row first
    in_update,          \* predict_cancer activations suspended in self.root.update()
    clock,              \* the latest minute datetime.now() has returned
    propagated,         \* the failure that left the operation it occurred in ("none" if none did)
    exported,           \* what the last step wrote to the export file (<<>>: nothing)
    valid_upload_seen,  \* history: some upload_image call opened, size-checked and displayed an image
    completed           \* history: predictions completed successfully since the last clear_history

vars == <<pc, config_file, model_file, config, config_writes, model_loaded, image_path,
          placeholder_label, image_label, resized, predict_button, status_var, image_info_label,
          result_label, confidence_scores, history_tree, in_update, clock, propagated,
          exported, valid_upload_seen, completed>>

(***************************************************************************)
(* Bounds of the model.                                                    *)
(***************************************************************************)
MaxHistory == 2     \* rows the history may hold before further predictions are held back
MaxClock == 1       \* minutes the clock may advance
MaxDim == 5         \* largest image and box side of the resize exploration

(***************************************************************************)
(* Program constants.                                                      *)
(***************************************************************************)
DefaultThreshold == 50      \* "threshold": 0.5
DefaultTargetSide == 48     \* "target_size": [48, 48]
DisplayBox == 350           \* resize_image_aspect_ratio(img, (350, 350))

NoPath == <<>>
NoText == <<>>
NoScores == <<>>
NoCall == [size |-> <<0, 0>>, max_size |-> <<0, 0>>, new_size |-> <<0, 0>>]

Min(a, b) == IF a <= b THEN a ELSE b

default_config ==
    [model_path |-> <<"cancer_detection_model.h5">>,
     target_size |-> <<DefaultTargetSide, DefaultTargetSide>>,
     threshold |-> DefaultThreshold]

(***************************************************************************)
(* The environment: what config.json may hold at start, what may lie at    *)
(* the model path, what the user may pick in the model dialog, and the     *)
(* image files the user may pick.                                          *)
(***************************************************************************)
\* state: "absent" (no such file), "corrupt" (not JSON) or "json" (json holds the parsed object)
NoJson == [model_path |-> <<>>, target_size |-> <<>>, threshold |-> 0]

JsonFile(json) == [state |-> "json", json |-> json]

ConfigFiles ==
    { [state |-> "absent", json |-> NoJson],
      [state |-> "corrupt", json |-> NoJson],
      JsonFile([model_path |-> <<"models", "idc.h5">>, target_size |-> <<64, 32>>, threshold |-> 70]),
      JsonFile([model_path |-> <<"cancer_detection_model.h5">>, target_size |-> <<48, 48>>, threshold |-> 150]) }

ModelFiles == {"valid", "corrupt", "missing"}

ModelPicks ==
    { [path |-> NoPath, content |-> "missing"],
      [path |-> <<"home", "picked.h5">>, content |-> "valid"],
      [path |-> <<"home", "broken.h5">>, content |-> "corrupt"] }

\* openable: Image.open succeeds; decodable: the pixel data loads (Image.open is lazy)
ImageFiles ==
    { [path |-> <<<<"scans">>, <<"scan.png">>>>, openable |-> TRUE, decodable |-> TRUE, size |-> <<100, 80>>],
      [path |-> <<<<"scans">>, <<"a", ",", "b", "\n", "c.png">>>>, openable |-> TRUE, decodable |-> TRUE, size |-> <<48, 48>>],
      [path |-> <<<<"scans">>, <<"tiny.png">>>>, openable |-> TRUE, decodable |-> TRUE, size |-> <<100, 31>>],
      [path |-> <<<<"scans">>, <<"notes.png">>>>, openable |-> FALSE, decodable |-> FALSE, size |-> <<0, 0>>],
      [path |-> <<<<"scans">>, <<"cut.png">>>>, openable |-> TRUE, decodable |-> FALSE, size |-> <<64, 64>>] }

FileAt(file_path) == CHOOSE f \in ImageFiles : f.path = file_path

\* model.predict: the two-element score vectors the opaque model may return
ScoreVectors == { <<50, 50>>, <<40, 60>>, <<30, 70>> }

(***************************************************************************)
(* Pure functions of the program.                                          *)
(***************************************************************************)
\* os.path.basename
basename(path) == IF path = NoPath THEN NoText ELSE path[Len(path)]

\* min(self.config["target_size"])
min_size(cfg) == Min(cfg.target_size[1], cfg.target_size[2])

\* resize_image_aspect_ratio: ratio = min(W / w, H / h), new size = (int(w * ratio), int(h * ratio)).
\* The ratio is kept as an exact fraction <<numerator, denominator>>; W / w <= H / h is
\* W * h <= H * w for positive sides, and int() truncates the non-negative products.
ratio(size, max_size) ==
    IF max_size[1] * size[2] <= max_size[2] * size[1]
    THEN <<max_size[1], size[1]>>
    ELSE <<max_size[2], size[2]>>

resize_image_aspect_ratio(size, max_size) ==
    LET r == ratio(size, max_size)
    IN  <<(size[1] * r[1]) \div r[2], (size[2] * r[1]) \div r[2]>>

\* img.resize(new_size, ...) raises ValueError unless both sides are positive
ResizeRaises(new_size) == new_size[1] < 1 \/ new_size[2] < 1

\* np.argmax(predictions, axis=1)[0]: the first index holding the largest score
argmax(p) == IF p[2] > p[1] THEN 1 ELSE 0

Digit == <<"0", "1", "2", "3", "4", "5", "6", "7", "8", "9">>

RECURSIVE Decimal(_)
Decimal(n) == IF n < 10 THEN <<Digit[n + 1]>> ELSE Decimal(n \div 10) \o <<Digit[(n % 10) + 1]>>

\* f"{c:.2%}" of a whole percentage
PercentStr(c) == Decimal(c) \o <<".", "0", "0", "%">>

\* datetime.now().strftime("%Y-%m-%d %H:%M"), the clock counting minutes of one hour
strftime(minute) == <<"2025-01-01 00:", Digit[(minute \div 10) + 1], Digit[(minute % 10) + 1]>>

\* update_results: the text of self.result_label
CancerDetected == <<"CANCER DETECTED">>
NoCancerDetected == <<"NO CANCER DETECTED">>

\* variant: the threshold compared with > instead of >=
update_results_strict(class_index, scores, threshold) ==
    IF class_index = 1 /\ scores[class_index + 1] > threshold
    THEN CancerDetected
    ELSE NoCancerDetected

update_results(class_index, scores, threshold) ==
    IF class_index = 1 /\ scores[class_index + 1] >= threshold
    THEN CancerDetected
    ELSE NoCancerDetected

\* add_to_history: the row built from the prediction
history_values(class_index, scores, path, minute) ==
    <<strftime(minute),
      basename(path),
      IF class_index = 1 THEN <<"Cancer">> ELSE <<"No Cancer">>,
      PercentStr(scores[class_index + 1])>>

\* variant: the row inserted at "end" instead of index 0
tree_insert_end(tree, values) == tree \o <<values>>

\* self.history_tree.insert("", 0, values=...)
tree_insert(tree, values) == <<values>> \o tree

\* export_history: f"{values[0]},{values[1]},{values[2]},{values[3]}\n"
csv_row(values) ==
    values[1] \o <<",">> \o values[2] \o <<",">> \o values[3] \o <<",">> \o values[4] \o <<"\n">>

csv_header == <<"Date", ",", "Filename", ",", "Result", ",", "Confidence", "\n">>

RECURSIVE csv_rows(_)
csv_rows(tree) == IF tree = <<>> THEN <<>> ELSE csv_row(Head(tree)) \o csv_rows(Tail(tree))

\* variant: the rows written last row first
RECURSIVE csv_rows_reversed(_)
csv_rows_reversed(tree) ==
    IF tree = <<>> THEN <<>> ELSE csv_rows_reversed(Tail(tree)) \o csv_row(Head(tree))

csv_text_reversed(tree) == csv_header \o csv_rows_reversed(tree)

\* everything export_history writes for a non-empty tree
csv_text(tree) == csv_header \o csv_rows(tree)

(***************************************************************************)
(* Construction: main() builds CancerDetectionApp, whose __init__ runs     *)
(* load_config, load_model_file and create_ui in this order.  An exception *)
(* that leaves __init__ leaves main() as well: the process ends.          *)
(***************************************************************************)
Init ==
    /\ pc = "start"
    /\ config_file \in ConfigFiles
    /\ model_file \in ModelFiles
    /\ config = NoJson
    /\ config_writes = 0
    /\ model_loaded = FALSE
    /\ image_path = NoPath
    /\ placeholder_label = "absent"
    /\ image_label = NoPath
    /\ resized = NoCall
    /\ predict_button = "absent"
    /\ status_var = NoText
    /\ image_info_label = NoText
    /\ result_label = NoText
    /\ confidence_scores = NoScores
    /\ history_tree = <<>>
    /\ in_update = 0
    /\ clock = 0
    /\ propagated = "none"
    /\ exported = NoText
    /\ valid_upload_seen = FALSE
    /\ completed = 0

\* variant: the defaults returned for an absent file without being written
load_config_no_write(file) ==
    IF file.state = "json"
    THEN [returns |-> file.json, file |-> file, wrote |-> FALSE, raises |-> FALSE]
    ELSE IF file.state = "absent"
    THEN [returns |-> default_config, file |-> file, wrote |-> FALSE, raises |-> FALSE]
    ELSE [returns |-> NoJson, file |-> file, wrote |-> FALSE, raises |-> TRUE]

\* load_config: what it returns, what it leaves in config.json, and whether it raises
load_config_result(file) ==
    IF file.state = "json"
    THEN [returns |-> file.json, file |-> file, wrote |-> FALSE, raises |-> FALSE]
    ELSE IF file.state = "absent"
    THEN [returns |-> default_config, file |-> JsonFile(default_config), wrote |-> TRUE, raises |-> FALSE]
    ELSE [returns |-> NoJson, file |-> file, wrote |-> FALSE, raises |-> TRUE]

load_config ==
    /\ pc = "start"
    /\ LET r == load_config_result(config_file)
       IN  /\ config' = r.returns
           /\ config_file' = r.file
           /\ config_writes' = config_writes + (IF r.wrote THEN 1 ELSE 0)
           /\ pc' = IF r.raises THEN "crashed" ELSE "load_model"
           /\ propagated' = IF r.raises THEN "corrupt_config" ELSE "none"
    /\ exported' = NoText
    /\ UNCHANGED <<model_file, model_loaded, image_path, placeholder_label, image_label,
                   resized, predict_button, status_var, image_info_label, result_label,
                   confidence_scores, history_tree, in_update, clock, valid_upload_seen,
                   completed>>

\* keras load_model(path): "ok", or the exception it raises.  A missing file raises
\* FileNotFoundError or another OSError/ValueError, depending on the installed library.
load_model(content) ==
    IF content = "valid" THEN {"ok"}
    ELSE IF content = "corrupt" THEN {"Exception"}
    ELSE {"FileNotFoundError", "Exception"}

\* load_model_file, given what load_model does at the configured path and what the
\* user picks in the dialog of the FileNotFoundError handler
load_model_file_result(cfg, content, outcome, pick) ==
    IF outcome = "ok"
    THEN [model_loaded |-> TRUE, config |-> cfg, wrote |-> FALSE, raises |-> FALSE,
          failure |-> "none"]
    ELSE IF outcome = "FileNotFoundError"
    THEN IF pick.path = NoPath
         THEN [model_loaded |-> FALSE, config |-> cfg, wrote |-> FALSE, raises |-> FALSE,
               failure |-> "missing_model"]
         ELSE IF "ok" \in load_model(pick.content)
         THEN [model_loaded |-> TRUE, config |-> [cfg EXCEPT !.model_path = pick.path],
               wrote |-> TRUE, raises |-> FALSE, failure |-> "missing_model"]
         \* load_model raises inside the except clause: no handler of this try applies
         ELSE [model_loaded |-> FALSE, config |-> cfg, wrote |-> FALSE, raises |-> TRUE,
               failure |-> "corrupt_picked_model"]
    ELSE [model_loaded |-> FALSE, config |-> cfg, wrote |-> FALSE, raises |-> FALSE,
          failure |-> IF content = "missing" THEN "missing_model" ELSE "corrupt_model"]

load_model_file ==
    /\ pc = "load_model"
    /\ \E outcome \in load_model(model_file) :
       \E pick \in IF outcome = "FileNotFoundError" THEN ModelPicks ELSE {CHOOSE k \in ModelPicks : k.path = NoPath} :
          LET r == load_model_file_result(config, model_file, outcome, pick)
          IN  /\ model_loaded' = r.model_loaded
              /\ config' = r.config
              /\ config_file' = IF r.wrote THEN JsonFile(r.config) ELSE config_file
              /\ config_writes' = config_writes + (IF r.wrote THEN 1 ELSE 0)
              /\ pc' = IF r.raises THEN "crashed" ELSE "create_ui"
              /\ propagated' = IF r.raises THEN r.failure ELSE "none"
    /\ exported' = NoText
    /\ UNCHANGED <<model_file, image_path, placeholder_label, image_label, resized,
                   predict_button, status_var, image_info_label, result_label,
                   confidence_scores, history_tree, in_update, clock, valid_upload_seen,
                   completed>>

create_ui ==
    /\ pc = "create_ui"
    /\ placeholder_label' = "placed"
    /\ predict_button' = "disabled"
    /\ status_var' = <<"Please upload an image to begin">>
    /\ result_label' = <<"No prediction yet">>
    /\ image_info_label' = <<"Image: None">>
    /\ history_tree' = <<>>
    /\ pc' = "running"
    /\ exported' = NoText
    /\ UNCHANGED <<propagated, config_file, model_file, config, config_writes, model_loaded, image_path,
                   image_label, resized, confidence_scores, in_update, clock,
                   valid_upload_seen, completed>>

(***************************************************************************)
(* Event handlers.  The Tk main loop runs one handler at a time; the only  *)
(* place where a handler hands control back to the event loop is the       *)
(* self.root.update() call of predict_cancer, which dispatches every       *)
(* pending event (button clicks included) before it returns.               *)
(***************************************************************************)
\* load_and_display_image raises: the pixel data cannot be loaded, or img.resize refuses the size
load_and_display_raises(f) ==
    \/ ~f.decodable
    \/ ResizeRaises(resize_image_aspect_ratio(f.size, <<DisplayBox, DisplayBox>>))

\* upload_image: how far the call gets for the path the file dialog returns
upload_image_stage(file_path, cfg) ==
    IF file_path = NoPath THEN "cancelled"
    ELSE LET f == FileAt(file_path)
         IN  IF ~f.openable THEN "open_raises"
             ELSE IF f.size[1] < min_size(cfg) \/ f.size[2] < min_size(cfg) THEN "too_small"
             ELSE IF load_and_display_raises(f) THEN "display_raises"
             ELSE "loaded"

\* upload_image reaches self.image_path = file_path and calls load_and_display_image
reaches_display(stage) == stage \in {"display_raises", "loaded"}

\* variant: the button enabled as soon as self.image_path is set, before the display
enables_predict_early(stage) == reaches_display(stage)

\* upload_image reaches self.predict_button.config(state="normal")
enables_predict(stage) == stage = "loaded"

upload_image ==
    /\ pc = "running"
    /\ \E file_path \in {NoPath} \cup {f.path : f \in ImageFiles} :
          LET stage == upload_image_stage(file_path, config)
              f == FileAt(file_path)
              name == basename(file_path)
          IN  /\ image_path' = IF reaches_display(stage) THEN file_path ELSE image_path
              /\ placeholder_label' = IF reaches_display(stage) THEN "forgotten" ELSE placeholder_label
              /\ resized' = IF reaches_display(stage)
                            THEN [size |-> f.size, max_size |-> <<DisplayBox, DisplayBox>>,
                                  new_size |-> resize_image_aspect_ratio(f.size, <<DisplayBox, DisplayBox>>)]
                            ELSE resized
              /\ image_label' = IF stage = "loaded" THEN file_path ELSE image_label
              /\ status_var' = IF stage = "loaded" THEN <<"Image loaded: ">> \o name ELSE status_var
              /\ predict_button' = IF enables_predict(stage) THEN "normal" ELSE predict_button
              /\ image_info_label' = IF stage = "loaded" THEN <<"Image: ">> \o name ELSE image_info_label
              /\ valid_upload_seen' =
                    \/ valid_upload_seen
                    \/ /\ file_path # NoPath
                       /\ f.openable
                       /\ f.size[1] >= min_size(config) /\ f.size[2] >= min_size(config)
                       /\ ~load_and_display_raises(f)
    /\ exported' = NoText
    /\ UNCHANGED <<propagated, pc, config_file, model_file, config, config_writes, model_loaded,
                   result_label, confidence_scores, history_tree, in_update, clock, completed>>

\* predict_cancer up to self.root.update(): the two refusals, or the progress bar is shown
\* and the call waits in update() for the pending events to be handled
predict_cancer ==
    /\ pc = "running"
    /\ predict_button = "normal"
    /\ (model_loaded /\ image_path # NoPath) => Len(history_tree) + in_update < MaxHistory
    /\ IF ~model_loaded
       THEN UNCHANGED <<in_update, status_var>>
       ELSE IF image_path = NoPath
       THEN UNCHANGED <<in_update, status_var>>
       ELSE /\ in_update' = in_update + 1
            /\ status_var' = <<"Processing...">>
    /\ exported' = NoText
    /\ UNCHANGED <<propagated, pc, config_file, model_file, config, config_writes, model_loaded, image_path,
                   placeholder_label, image_label, resized, predict_button, image_info_label,
                   result_label, confidence_scores, history_tree, clock, valid_upload_seen,
                   completed>>

\* the try block of predict_cancer raises: Image.open/preprocess_image fail, or model.predict does
prediction_raises(f, loaded, predictions) ==
    \/ ~f.openable
    \/ ~loaded
    \/ ~f.decodable
    \/ predictions = NoScores

\* predict_cancer from the return of self.root.update() to its end: try, except, finally.
\* datetime.now() returns the minute of the last reading or a later one.
predict_cancer_return ==
    /\ pc = "running"
    /\ in_update > 0
    /\ \E predictions \in ScoreVectors \cup {NoScores}, now \in clock..MaxClock :
          IF prediction_raises(FileAt(image_path), model_loaded, predictions)
          THEN UNCHANGED <<confidence_scores, result_label, history_tree, status_var, completed, clock>>
          ELSE LET class_index == argmax(predictions)
               IN  /\ confidence_scores' = predictions
                   /\ result_label' = update_results(class_index, predictions, config.threshold)
                   /\ clock' = now
                   /\ history_tree' = tree_insert(history_tree,
                                          history_values(class_index, predictions, image_path, now))
                   /\ status_var' = <<"Prediction complete">>
                   /\ completed' = completed + 1
    /\ in_update' = in_update - 1
    /\ exported' = NoText
    /\ UNCHANGED <<propagated, pc, config_file, model_file, config, config_writes, model_loaded, image_path,
                   placeholder_label, image_label, resized, predict_button, image_info_label,
                   valid_upload_seen>>

clear_history ==
    /\ pc = "running"
    /\ history_tree' = <<>>
    /\ completed' = 0
    /\ exported' = NoText
    /\ UNCHANGED <<propagated, pc, config_file, model_file, config, config_writes, model_loaded, image_path,
                   placeholder_label, image_label, resized, predict_button, status_var,
                   image_info_label, result_label, confidence_scores, in_update, clock,
                   valid_upload_seen>>

\* export_history: what is written, for the answer of the save dialog and of open(file_path, 'w')
export_history_writes(tree, answer) ==
    IF tree = <<>> THEN NoText
    ELSE IF answer = "chosen" THEN csv_text(tree)
    ELSE NoText

export_history ==
    /\ pc = "running"
    /\ \E answer \in {"cancelled", "chosen", "open_raises"} :
          exported' = export_history_writes(history_tree, answer)
    /\ UNCHANGED <<propagated, pc, config_file, model_file, config, config_writes, model_loaded, image_path,
                   placeholder_label, image_label, resized, predict_button, status_var,
                   image_info_label, result_label, confidence_scores, history_tree, in_update,
                   clock, valid_upload_seen, completed>>

Next ==
    \/ load_config
    \/ load_model_file
    \/ create_ui
    \/ upload_image
    \/ predict_cancer
    \/ predict_cancer_return
    \/ clear_history
    \/ export_history

Spec == Init /\ [][Next]_vars

(***************************************************************************)
(* resize_image_aspect_ratio on its own: every image size and every box    *)
(* with sides 1..MaxDim.                                                    *)
(***************************************************************************)
InitResize ==
    /\ Init
    /\ config_file.state = "absent"
    /\ model_file = "valid"

resize_call ==
    /\ \E w \in 1..MaxDim, h \in 1..MaxDim, W \in 1..MaxDim, H \in 1..MaxDim :
          resized' = [size |-> <<w, h>>, max_size |-> <<W, H>>,
                      new_size |-> resize_image_aspect_ratio(<<w, h>>, <<W, H>>)]
    /\ UNCHANGED <<pc, config_file, model_file, config, config_writes, model_loaded, image_path,
                   placeholder_label, image_label, predict_button, status_var, image_info_label,
                   result_label, confidence_scores, history_tree, in_update, clock, propagated,
                   exported, valid_upload_seen, completed>>

NextResize == resize_call

SpecResize == InitResize /\ [][NextResize]_vars

(***************************************************************************)
(* Properties.                                                             *)
(***************************************************************************)
Constructed == pc \in {"load_model", "create_ui", "running"}

\* C1: after every successful prediction the diagnosis shown is positive exactly when the
\* arg-max class is 1 (p[1] strictly above p[0], ties going to class 0) and p[1] is at
\* least the configured threshold; otherwise it is negative.  p[1] equal to the threshold
\* is positive, p[1] below it is negative.
C1_DecisionRule ==
    confidence_scores # NoScores =>
        /\ result_label \in {CancerDetected, NoCancerDetected}
        /\ result_label = CancerDetected <=>
               /\ confidence_scores[2] > confidence_scores[1]
               /\ confidence_scores[2] >= config.threshold

\* a prediction whose class-1 score equals the threshold was shown as positive
C1_Witness ==
    /\ confidence_scores = <<30, 70>>
    /\ config.threshold = 70
    /\ result_label = CancerDetected

ListedFailures ==
    {"missing_config", "missing_model", "corrupt_model", "corrupt_picked_model",
     "invalid_image", "inference"}

\* C2: no failure of the listed kinds (missing config, missing model, corrupt model
\* including the one picked in the fallback dialog, invalid image, inference exception)
\* leaves the operation it occurs in: the application never ends because of one.
C2_FailuresCaught == ~(pc = "crashed" /\ propagated \in ListedFailures)

\* C3: the prediction button is disabled from the creation of the window on, and is enabled
\* only if some earlier upload_image call opened the file, passed the size check and
\* displayed the image.
C3_PredictNeedsValidImage ==
    pc = "running" =>
        /\ predict_button \in {"disabled", "normal"}
        /\ predict_button = "normal" => valid_upload_seen

\* an upload reached the display step and failed there, and the button is still disabled
C3_Witness ==
    /\ pc = "running"
    /\ image_path # NoPath
    /\ placeholder_label = "forgotten"
    /\ predict_button = "disabled"

\* the minute a formatted date stands for
MinuteOf(date) == CHOOSE m \in 0..MaxClock : strftime(m) = date

MostRecentFirst(tree) ==
    \A i \in 1..Len(tree) : \A j \in i..Len(tree) : MinuteOf(tree[i][1]) >= MinuteOf(tree[j][1])

\* C4: the history is empty at start; it always holds one row per prediction completed
\* since the last clear_history, most recent first; a step either leaves it unchanged,
\* or is a completed prediction putting exactly one row in front, or is clear_history
\* removing every row; upload_image, export_history and the first part of
\* predict_cancer (the refusals included) never change it.
C4_HistoryLifecycle ==
    /\ history_tree = <<>>
    /\ completed = 0
    /\ [][ IF history_tree' = history_tree
           THEN completed' = completed
           ELSE /\ Len(history_tree') = completed'
                /\ MostRecentFirst(history_tree')
                /\ \/ /\ history_tree' = <<>>
                      /\ completed' = 0
                   \/ /\ in_update' = in_update - 1
                      /\ completed' = completed + 1
                      /\ status_var' = <<"Prediction complete">>
                      /\ Tail(history_tree') = history_tree
                /\ ~(upload_image \/ export_history \/ predict_cancer)
         ]_vars

\* two predictions completed in different minutes and both are in the history
C4_Witness ==
    /\ Len(history_tree) = 2
    /\ completed = 2
    /\ history_tree[1][1] # history_tree[2][1]

FirstBreak(text) ==
    IF \E i \in 1..Len(text) : text[i] = "\n"
    THEN CHOOSE i \in 1..Len(text) : text[i] = "\n" /\ \A j \in 1..(i - 1) : text[j] # "\n"
    ELSE 0

\* the lines of a text, each without the line break that ends it
RECURSIVE SplitLines(_)
SplitLines(text) ==
    IF text = <<>> THEN <<>>
    ELSE LET i == FirstBreak(text)
         IN  IF i = 0 THEN <<text>>
             ELSE <<SubSeq(text, 1, i - 1)>> \o SplitLines(SubSeq(text, i + 1, Len(text)))

CountBreaks(text) == Cardinality({i \in 1..Len(text) : text[i] = "\n"})

RECURSIVE BreaksIn(_)
BreaksIn(tree) ==
    IF tree = <<>> THEN 0
    ELSE CountBreaks(Head(tree)[1]) + CountBreaks(Head(tree)[2]) + CountBreaks(Head(tree)[3])
         + CountBreaks(Head(tree)[4]) + BreaksIn(Tail(tree))

HeaderLine == <<"Date", ",", "Filename", ",", "Result", ",", "Confidence">>

JoinedByCommas(values) ==
    values[1] \o <<",">> \o values[2] \o <<",">> \o values[3] \o <<",">> \o values[4]

OneLinePerEntry(lines, tree) ==
    /\ Len(lines) = Len(tree) + 1
    /\ lines[1] = HeaderLine
    /\ \A i \in 1..Len(tree) : lines[i + 1] = JoinedByCommas(tree[i])

\* C5 as stated: whenever export_history writes, the history is not empty and the file
\* holds exactly n + 1 lines, the header and then one line per entry with its four values
\* joined by commas, in the history's order, whatever the entries hold.
C5_ExportAsStated ==
    exported # NoText =>
        /\ history_tree # <<>>
        /\ OneLinePerEntry(SplitLines(exported), history_tree)

\* C5 as amended: whenever export_history writes, the history is not empty (and is the
\* one exported), the first line is the header, the file holds n + 1 lines plus one for
\* every line break inside a value, and when no value holds a line break the lines after
\* the header are the entries' values joined by commas, in the history's order.
C5_ExportLines ==
    exported # NoText =>
        /\ history_tree # <<>>
        /\ SplitLines(exported)[1] = HeaderLine
        /\ Len(SplitLines(exported)) = Len(history_tree) + 1 + BreaksIn(history_tree)
        /\ BreaksIn(history_tree) = 0 => OneLinePerEntry(SplitLines(exported), history_tree)

\* two different entries without line breaks were exported
C5_Witness ==
    /\ exported # NoText
    /\ Len(history_tree) = 2
    /\ history_tree[1] # history_tree[2]
    /\ BreaksIn(history_tree) = 0

DocumentedDefaults ==
    [model_path |-> <<"cancer_detection_model.h5">>, target_size |-> <<48, 48>>, threshold |-> 50]

\* C6: load_config, run on an absent config.json, writes the documented default record
\* to it and returns that record; run on a config.json holding a JSON object, it returns
\* the object and does not write the file.
C6_DefaultConfig ==
    [][ pc = "start" =>
          /\ config_file.state = "absent" =>
                /\ config_file' = [state |-> "json", json |-> DocumentedDefaults]
                /\ config' = DocumentedDefaults
                /\ config_writes' = config_writes + 1
          /\ config_file.state = "json" =>
                /\ config' = config_file.json
                /\ config_file' = config_file
                /\ config_writes' = config_writes
      ]_vars

\* load_config ran on an absent file: the defaults are on disk and in use
C6_Witness ==
    /\ pc = "load_model"
    /\ config_writes = 1
    /\ config = DocumentedDefaults
    /\ config_file.json = DocumentedDefaults

\* C7: once the configuration is loaded, the threshold is a probability in [0, 1].
C7_ThresholdIsProbability ==
    Constructed => (config.threshold >= 0 /\ config.threshold <= 100)

\* C8: every resize_image_aspect_ratio call on an image w x h (w, h >= 1) and a box
\* W x H returns (floor(w * r), floor(h * r)) for r = min(W / w, H / h), with both new
\* sides at least 1 and inside the box.
C8_ResizeInBox ==
    resized # NoCall =>
        LET w == resized.size[1]
            h == resized.size[2]
            W == resized.max_size[1]
            H == resized.max_size[2]
            n == resized.new_size
            num == IF W * h <= H * w THEN W ELSE H
            den == IF W * h <= H * w THEN w ELSE h
        IN  /\ n[1] * den <= w * num /\ w * num < (n[1] + 1) * den
            /\ n[2] * den <= h * num /\ h * num < (n[2] + 1) * den
            /\ n[1] <= W /\ n[2] <= H
            /\ n[1] >= 1 /\ n[2] >= 1

\* C9: while a predict_cancer call is in progress (its progress bar is up), no other
\* predict_cancer call gets in progress and image_path does not change.
C9_HandlersDoNotInterleave ==
    [][ in_update >= 1 => (in_update' <= 1 /\ image_path' = image_path) ]_vars

\* C10: the Result of the newest history row is "Cancer" exactly when the results tab
\* shows CANCER DETECTED (both come from the same, latest successful prediction); stated
\* for the thresholds that are probabilities.
C10_HistoryAgreesWithDiagnosis ==
    (history_tree # <<>> /\ config.threshold >= 0 /\ config.threshold <= 100) =>
        (history_tree[1][3] = <<"Cancer">> <=> result_label = CancerDetected)

\* the selection state of the window: what predict_cancer will classify and what is shown
selection == <<image_path, image_label, placeholder_label, status_var, image_info_label,
               predict_button>>

\* the step ends as a successful upload_image call ends: the picked image is the one
\* displayed and named in the status and image-info texts, and the button is enabled
UploadSucceeded ==
    /\ image_path' # NoPath
    /\ image_label' = image_path'
    /\ placeholder_label' = "forgotten"
    /\ status_var' = <<"Image loaded: ">> \o basename(image_path')
    /\ image_info_label' = <<"Image: ">> \o basename(image_path')
    /\ predict_button' = "normal"

\* C11: an upload_image call that does not succeed (dialog cancelled, file not openable,
\* image below the minimum size, load_and_display_image raising) leaves image_path, the
\* displayed image, the status and image-info texts and the button state as they were;
\* hence image_path is always the last image that was loaded and displayed.
C11_FailedUploadKeepsSelection ==
    /\ [](image_path = image_label)
    /\ [][ upload_image => (UploadSucceeded \/ UNCHANGED selection) ]_vars

====
